---- MODULE Spec2Model ----
(***************************************************************************)
(* A model of llvm::formatv (include/llvm/Support/FormatVariadic.h).       *)
(*                                                                         *)
(* Text is a sequence of one-character strings.  A session is the triple   *)
(* Fmt / Replacements / Wrappers of formatv_object_base; it is rendered    *)
(* through operator<< on an existing stream, str() and sstr<N>().          *)
(* The header only declares the parser (parseFormatString,                 *)
(* splitLiteralAndReplacement, parseReplacementItem, consumeFieldLayout)   *)
(* and uses FmtAlign and the format providers from other headers; those    *)
(* parts follow the design document, the render loop follows the header.   *)
(***************************************************************************)
EXTENDS Integers, Sequences, FiniteSets, TLC

VARIABLES Fmt,          \* formatv_object_base::Fmt
          Wrappers,     \* formatv_object_base::Wrappers (the argument texts)
          Replacements, \* formatv_object_base::Replacements
          parseRead,    \* highest position of Fmt the parser examined
          OS,           \* chunks appended to an existing raw_ostream by <<
          strResult,    \* <<>> or <<text>>: what the last str() returned
          sstrResult,   \* <<>> or <<text>>: what the last sstr<N>() returned
          lastWrites    \* <<>> or <<w>>: per-token writes of the last format()

vars == <<Fmt, Wrappers, Replacements, parseRead, OS, strResult, sstrResult,
          lastWrites>>

----------------------------------------------------------------------------
(* Bounds of the model *)

MaxPieces == 3
MaxLayoutLen == 3
MaxStreamed == 2

----------------------------------------------------------------------------
(* Text helpers *)

Max(a, b) == IF a >= b THEN a ELSE b

SetMin(S) == CHOOSE x \in S : \A y \in S : x <= y

DropFront(s, n) == SubSeq(s, n + 1, Len(s))

RECURSIVE Flatten(_)
Flatten(ss) == IF ss = <<>> THEN <<>> ELSE Head(ss) \o Flatten(Tail(ss))

Repeat(c, n) == [i \in 1..n |-> c]

DigitChars == {"0", "1", "2", "3", "4", "5", "6", "7", "8", "9"}

DigitVal(c) ==
  CASE c = "0" -> 0 [] c = "1" -> 1 [] c = "2" -> 2 [] c = "3" -> 3
    [] c = "4" -> 4 [] c = "5" -> 5 [] c = "6" -> 6 [] c = "7" -> 7
    [] c = "8" -> 8 [] c = "9" -> 9

RECURSIVE DecimalValue(_)
DecimalValue(s) ==
  IF s = <<>> THEN 0
  ELSE DecimalValue(SubSeq(s, 1, Len(s) - 1)) * 10 + DigitVal(s[Len(s)])

\* Length of the longest prefix of s made of decimal digits.
DigitPrefixLen(s) ==
  IF \A i \in 1..Len(s) : s[i] \in DigitChars THEN Len(s)
  ELSE SetMin({i \in 1..Len(s) : s[i] \notin DigitChars}) - 1

\* StringRef::consumeInteger: Failed when no leading digit; otherwise the
\* value of the leading digits and the rest of the text.
consumeInteger(s) ==
  LET n == DigitPrefixLen(s) IN
  [Failed |-> n = 0,
   Value  |-> IF n = 0 THEN 0 ELSE DecimalValue(SubSeq(s, 1, n)),
   Rest   |-> IF n = 0 THEN s ELSE DropFront(s, n)]

----------------------------------------------------------------------------
(* ReplacementItem *)

ReplacementType == {"Empty", "Format", "Literal"}

AlignStyle == {"Left", "Center", "Right"}

\* char Pad has no initialiser in the default and the literal constructor;
\* format() never reads it.
UninitPad == "?uninit"

EmptyItem ==
  [Type |-> "Empty", Spec |-> <<>>, Index |-> 0, Align |-> 0,
   Where |-> "Right", Pad |-> UninitPad, Options |-> <<>>]

LiteralItem(Literal) ==
  [Type |-> "Literal", Spec |-> Literal, Index |-> 0, Align |-> 0,
   Where |-> "Right", Pad |-> UninitPad, Options |-> <<>>]

FormatItem(Spec, Index, Align, Where, Pad, Options) ==
  [Type |-> "Format", Spec |-> Spec, Index |-> Index, Align |-> Align,
   Where |-> Where, Pad |-> Pad, Options |-> Options]

----------------------------------------------------------------------------
(* Layout parser: layout ::= [[char]loc]width *)

translateLocChar(c) ==
  CASE c = "-" -> "Left" [] c = "=" -> "Center" [] c = "+" -> "Right"

LocChars == {"-", "=", "+"}

\* A layout parser that knows no pad character: [loc]width only.
consumeFieldLayoutNoPad(Spec) ==
  IF Spec = <<>>
  THEN [ok |-> TRUE, Where |-> "Right", Align |-> 0, Pad |-> " ", Spec |-> <<>>]
  ELSE
    LET located == Spec[1] \in LocChars
        ci == consumeInteger(IF located THEN DropFront(Spec, 1) ELSE Spec)
    IN [ok |-> ~ci.Failed,
        Where |-> IF located THEN translateLocChar(Spec[1]) ELSE "Right",
        Align |-> ci.Value, Pad |-> " ", Spec |-> ci.Rest]

\* bool consumeFieldLayout(StringRef &Spec, AlignStyle &Where, size_t &Align,
\* char &Pad): ok is the returned flag, Spec the text left unconsumed.
consumeFieldLayout(Spec) ==
  IF Spec = <<>>
  THEN [ok |-> TRUE, Where |-> "Right", Align |-> 0, Pad |-> " ", Spec |-> <<>>]
  ELSE
    LET padded == Len(Spec) > 1 /\ Spec[2] \in LocChars
        located == ~padded /\ Spec[1] \in LocChars
        Pad == IF padded THEN Spec[1] ELSE " "
        Where == IF padded THEN translateLocChar(Spec[2])
                 ELSE IF located THEN translateLocChar(Spec[1])
                 ELSE "Right"
        Width == IF padded THEN DropFront(Spec, 2)
                 ELSE IF located THEN DropFront(Spec, 1)
                 ELSE Spec
        ci == consumeInteger(Width)
    IN [ok |-> ~ci.Failed, Where |-> Where, Align |-> ci.Value, Pad |-> Pad,
        Spec |-> ci.Rest]

----------------------------------------------------------------------------
(* Replacement parser *)

\* Position of the first element of s that is in the set cs, Len(s)+1 if none.
FirstOf(s, cs) ==
  LET hits == {i \in 1..Len(s) : s[i] \in cs} IN
  IF hits = {} THEN Len(s) + 1 ELSE SetMin(hits)

\* Spec is the raw text of one field, braces included:
\* "{" index ["," layout] [":" format] "}".  A field whose index segment is
\* not digit+ is the default-constructed (Empty) item; a layout without a
\* valid width leaves the field unpadded.
parseReplacementItem(Spec) ==
  LET RepString == SubSeq(Spec, 2, Len(Spec) - 1)
      sep == FirstOf(RepString, {",", ":"})
      IndexSeg == SubSeq(RepString, 1, sep - 1)
      AfterIndex == DropFront(RepString, sep - 1)
      hasLayout == AfterIndex # <<>> /\ AfterIndex[1] = ","
      AfterComma == IF hasLayout THEN Tail(AfterIndex) ELSE AfterIndex
      colon == FirstOf(AfterComma, {":"})
      LayoutSeg == SubSeq(AfterComma, 1, colon - 1)
      Options == DropFront(AfterComma, colon)
      lay == consumeFieldLayout(LayoutSeg)
  IN IF IndexSeg = <<>> \/ DigitPrefixLen(IndexSeg) # Len(IndexSeg)
     THEN EmptyItem
     ELSE IF lay.ok
     THEN FormatItem(Spec, DecimalValue(IndexSeg), lay.Align, lay.Where,
                     lay.Pad, Options)
     ELSE FormatItem(Spec, DecimalValue(IndexSeg), 0, "Right", " ", Options)

\* One look at position i of F: the character there, or EndOfInput when i is
\* past the end (the position is then not read).
EndOfInput == "?end"

PeekUnchecked(F, i) ==
  [ch |-> IF i <= Len(F) THEN F[i] ELSE EndOfInput, read |-> i]

Peek(F, i) ==
  IF i <= Len(F) THEN [ch |-> F[i], read |-> i]
  ELSE [ch |-> EndOfInput, read |-> i - 1]

\* Literal text from position i up to the next unescaped "{" or the end of F,
\* with "{{" -> "{" and "}}" -> "}" applied.  next is where the scan stopped,
\* read the highest position examined.
RECURSIVE ScanLiteral(_, _, _, _)
ScanLiteral(F, i, acc, hi) ==
  IF i > Len(F) THEN [lit |-> acc, next |-> i, read |-> hi]
  ELSE
    LET c == F[i] IN
    IF c \in {"{", "}"}
    THEN LET nx == Peek(F, i + 1) IN
         IF nx.ch = c
         THEN ScanLiteral(F, i + 2, Append(acc, c), Max(hi, nx.read))
         ELSE IF c = "{"
         THEN [lit |-> acc, next |-> i, read |-> Max(hi, nx.read)]
         ELSE ScanLiteral(F, i + 1, Append(acc, c), Max(hi, nx.read))
    ELSE ScanLiteral(F, i + 1, Append(acc, c), Max(hi, i))

\* Position of the first "}" at or after i, 0 when there is none.
FindClose(F, i) ==
  LET hits == {j \in i..Len(F) : F[j] = "}"} IN
  IF hits = {} THEN 0 ELSE SetMin(hits)

\* std::pair<ReplacementItem, StringRef> splitLiteralAndReplacement(Fmt):
\* the next token of a non-empty Fmt and the text after it.
splitLiteralAndReplacement(F) ==
  LET sc == ScanLiteral(F, 1, <<>>, 0) IN
  IF sc.lit # <<>>
  THEN [item |-> LiteralItem(sc.lit), rest |-> DropFront(F, sc.next - 1),
        read |-> sc.read]
  ELSE
    LET BC == FindClose(F, 2) IN
    IF BC = 0
    THEN [item |-> LiteralItem(F), rest |-> <<>>, read |-> Max(sc.read, Len(F))]
    ELSE [item |-> parseReplacementItem(SubSeq(F, 1, BC)),
          rest |-> DropFront(F, BC), read |-> Max(sc.read, BC)]

RECURSIVE ParseLoop(_, _, _, _)
ParseLoop(F, toks, off, hi) ==
  IF F = <<>> THEN [Replacements |-> toks, read |-> hi]
  ELSE LET r == splitLiteralAndReplacement(F) IN
       ParseLoop(r.rest, Append(toks, r.item), off + (Len(F) - Len(r.rest)),
                 Max(hi, off + r.read))

\* std::vector<ReplacementItem> parseFormatString(StringRef Fmt)
parseFormatString(F) == ParseLoop(F, <<>>, 0, 0)

----------------------------------------------------------------------------
(* Rendering *)

\* detail::format_wrapper::format(S, Options) for a string argument: the
\* provider writes the argument's text.
Provide(W, Options) == W

\* The alignment engine: content of width w in a field of width Amount.
AlignmentEngine(Content, Where, Amount, Fill) ==
  LET w == Len(Content)
      PadAmount == Amount - w
  IN IF Amount <= w THEN Content
     ELSE CASE Where = "Left" -> Content \o Repeat(Fill, PadAmount)
            [] Where = "Center" ->
                 Repeat(Fill, PadAmount \div 2) \o Content
                   \o Repeat(Fill, PadAmount - (PadAmount \div 2))
            [] Where = "Right" -> Repeat(Fill, PadAmount) \o Content

\* FmtAlign Align(*W, R.Where, R.Align); Align.format(S, R.Options);
\* the constructor is given no pad character, so the fill is the blank.
FmtAlign(W, Where, Amount, Options) ==
  AlignmentEngine(Provide(W, Options), Where, Amount, " ")

\* One iteration of the loop of format(): what the token R writes to S.
WriteOfSkipLiteral(R) ==
  IF R.Type = "Empty" THEN <<>>
  ELSE IF R.Type = "Literal" THEN <<>>
  ELSE IF R.Index >= Len(Wrappers) THEN R.Spec
  ELSE FmtAlign(Wrappers[R.Index + 1], R.Where, R.Align, R.Options)

WriteOfNoEmptyCheck(R) ==
  IF R.Type = "Literal" THEN R.Spec
  ELSE IF R.Index >= Len(Wrappers) THEN R.Spec
  ELSE FmtAlign(Wrappers[R.Index + 1], R.Where, R.Align, R.Options)

WriteOfDropOutOfRange(R) ==
  IF R.Type = "Empty" THEN <<>>
  ELSE IF R.Type = "Literal" THEN R.Spec
  ELSE IF R.Index >= Len(Wrappers) THEN <<>>
  ELSE FmtAlign(Wrappers[R.Index + 1], R.Where, R.Align, R.Options)

WriteOfFirstWrapper(R) ==
  IF R.Type = "Empty" THEN <<>>
  ELSE IF R.Type = "Literal" THEN R.Spec
  ELSE IF R.Index >= Len(Wrappers) THEN R.Spec
  ELSE FmtAlign(Wrappers[1], R.Where, R.Align, R.Options)

WriteOfAlwaysRight(R) ==
  IF R.Type = "Empty" THEN <<>>
  ELSE IF R.Type = "Literal" THEN R.Spec
  ELSE IF R.Index >= Len(Wrappers) THEN R.Spec
  ELSE FmtAlign(Wrappers[R.Index + 1], "Right", R.Align, R.Options)

WriteOfTruncating(R) ==
  IF R.Type = "Empty" THEN <<>>
  ELSE IF R.Type = "Literal" THEN R.Spec
  ELSE IF R.Index >= Len(Wrappers) THEN R.Spec
  ELSE LET out == FmtAlign(Wrappers[R.Index + 1], R.Where, R.Align, R.Options)
       IN IF R.Align > 0 /\ R.Align < Len(out) THEN SubSeq(out, 1, R.Align)
          ELSE out

WriteOf(R) ==
  IF R.Type = "Empty" THEN <<>>
  ELSE IF R.Type = "Literal" THEN R.Spec
  ELSE IF R.Index >= Len(Wrappers) THEN R.Spec
  ELSE FmtAlign(Wrappers[R.Index + 1], R.Where, R.Align, R.Options)

\* void format(raw_ostream &S) const: the writes to S, one per token, in order.
format == [i \in 1..Len(Replacements) |-> WriteOf(Replacements[i])]

\* std::string str() const: a fresh Result, streamed into and returned.
strStale ==
  (IF strResult = <<>> THEN <<>> ELSE strResult[1]) \o Flatten(format)

str == Flatten(format)

\* SmallString<N> sstr() const: a fresh SmallString (it grows past N).
sstr == Flatten(format)

----------------------------------------------------------------------------
(* Sessions *)

\* Argument lists given to formatv; string arguments.
ArgLists == { <<>>, <<<<"a">>>>, <<<<"a">>, <<"b", "b">>>> }

\* Pieces from which format strings are assembled.
Pieces ==
  { <<"a">>, <<"{">>, <<"}">>, <<"{", "{">>, <<"}", "}">>,
    <<"{", "0", "}">>, <<"{", "1", "}">>, <<"{", "x", "}">> }

RECURSIVE PieceStrings(_)
PieceStrings(n) ==
  IF n = 0 THEN { <<>> }
  ELSE LET shorter == PieceStrings(n - 1) IN
       shorter \cup { s \o p : s \in shorter, p \in Pieces }

\* Format strings quoted in the header and in the design document.
ExampleFmts ==
  { <<"{", "0", "}", " ", "{", "1", "}", " ", "{", "0", "}">>,
    <<"{", "5", "}">>,
    <<"{", "0", ":", "x", "}", "{", "1", ",", "3", ":", "x", "}">> }

Formats == PieceStrings(MaxPieces) \cup ExampleFmts

\* Layout segments: every text over LayoutChars up to MaxLayoutLen long.
LayoutChars == {"-", "=", "+", "*", "0", "1", "5"}

RECURSIVE Layouts(_)
Layouts(n) ==
  IF n = 0 THEN { <<>> }
  ELSE LET shorter == Layouts(n - 1) IN
       shorter \cup { Append(s, c) : s \in shorter, c \in LayoutChars }

FieldWithLayout(index, layout) == <<"{", index, ",">> \o layout \o <<"}">>

LayoutFormats ==
  { pre \o FieldWithLayout(ix, l) :
      pre \in { <<>>, <<"a">> }, ix \in {"0", "1"}, l \in Layouts(MaxLayoutLen) }

\* formatv(Fmt, Vals...): the base constructor parses Fmt, the derived one
\* fills Wrappers.
Constructed(F, Vals) ==
  /\ Fmt = F
  /\ Replacements = parseFormatString(F).Replacements
  /\ parseRead = parseFormatString(F).read
  /\ Wrappers = Vals
  /\ OS = <<>>
  /\ strResult = <<>>
  /\ sstrResult = <<>>
  /\ lastWrites = <<>>

Init == \E F \in Formats, Vals \in ArgLists : Constructed(F, Vals)

InitLayout == \E F \in LayoutFormats, Vals \in ArgLists : Constructed(F, Vals)

\* OS << formatv_object: format() appends to an existing stream.
StreamTo ==
  /\ Len(OS) < MaxStreamed
  /\ OS' = Append(OS, Flatten(format))
  /\ lastWrites' = <<format>>
  /\ UNCHANGED <<Fmt, Wrappers, Replacements, parseRead, strResult, sstrResult>>

Str ==
  /\ strResult' = <<str>>
  /\ lastWrites' = <<format>>
  /\ UNCHANGED <<Fmt, Wrappers, Replacements, parseRead, OS, sstrResult>>

Sstr ==
  /\ sstrResult' = <<sstr>>
  /\ lastWrites' = <<format>>
  /\ UNCHANGED <<Fmt, Wrappers, Replacements, parseRead, OS, strResult>>

Next == StreamTo \/ Str \/ Sstr

Spec == Init /\ [][Next]_vars

SpecLayout == InitLayout /\ [][Next]_vars

----------------------------------------------------------------------------
(* Vocabulary of the properties *)

Rendered == lastWrites # <<>>

\* Every text a render call has handed back or appended so far.
Results ==
  {OS[k] : k \in 1..Len(OS)}
    \cup {strResult[k] : k \in 1..Len(strResult)}
    \cup {sstrResult[k] : k \in 1..Len(sstrResult)}

InRange(R) == R.Type = "Format" /\ R.Index < Len(Wrappers)

OutOfRange(R) == R.Type = "Format" /\ R.Index >= Len(Wrappers)

Chars(s) == {s[k] : k \in 1..Len(s)}

\* The text with "{{" -> "{" and "}}" -> "}" applied from left to right.
RECURSIVE Unescaped(_)
Unescaped(s) ==
  IF s = <<>> THEN <<>>
  ELSE IF Len(s) >= 2 /\ s[1] \in {"{", "}"} /\ s[2] = s[1]
  THEN <<s[1]>> \o Unescaped(DropFront(s, 2))
  ELSE <<s[1]>> \o Unescaped(Tail(s))

\* Position of the first "{" of s that is not half of a "{{" (0 if none),
\* reading s from position i as text outside any field.
RECURSIVE FirstLoneOpen(_, _)
FirstLoneOpen(s, i) ==
  IF i > Len(s) THEN 0
  ELSE IF i < Len(s) /\ s[i] \in {"{", "}"} /\ s[i + 1] = s[i]
  THEN FirstLoneOpen(s, i + 2)
  ELSE IF s[i] = "{" THEN i
  ELSE FirstLoneOpen(s, i + 1)

\* What a simple piece (a letter, or a field "{d}") must render as.
SimplePieces == { <<>>, <<"a">>, <<"{", "0", "}">>, <<"{", "1", "}">> }

OutOfPiece(p) ==
  IF Len(p) = 3 /\ DigitVal(p[2]) < Len(Wrappers)
  THEN Wrappers[DigitVal(p[2]) + 1]
  ELSE p

----------------------------------------------------------------------------
(* C1 *)

\* C1: a Format token whose index is at or past the number of arguments
\* writes its own raw text, braces included, and the render goes on with the
\* tokens after it: every token has its write, and a format string made of
\* one such field between optional letters renders as itself.
C1_OutOfRangeEchoesRawField ==
  Rendered =>
    /\ Len(lastWrites[1]) = Len(Replacements)
    /\ \A i \in 1..Len(Replacements) :
         OutOfRange(Replacements[i]) =>
           /\ lastWrites[1][i] = Replacements[i].Spec
           /\ Head(lastWrites[1][i]) = "{"
           /\ lastWrites[1][i][Len(lastWrites[1][i])] = "}"
    /\ \A d \in DigitChars, pre \in {<<>>, <<"a">>}, post \in {<<>>, <<"a">>} :
         (DigitVal(d) >= Len(Wrappers) /\ Fmt = pre \o <<"{", d, "}">> \o post)
           => \A r \in Results : r = Fmt

C1_Witness ==
  /\ Rendered
  /\ Fmt = <<"{", "1", "}", "a">>
  /\ Len(Wrappers) = 1
  /\ strResult = <<Fmt>>

----------------------------------------------------------------------------
(* C2 *)

\* C2: in a rendered field that is wider than its content, every character
\* that is not content is the pad character parsed for that token.
C2_PaddingIsParsedPad ==
  Rendered =>
    \A i \in 1..Len(Replacements) :
      LET R == Replacements[i] IN
      (InRange(R) /\ R.Align > Len(Wrappers[R.Index + 1])) =>
        \A k \in 1..Len(lastWrites[1][i]) :
          \/ lastWrites[1][i][k] = R.Pad
          \/ lastWrites[1][i][k] \in Chars(Wrappers[R.Index + 1])

----------------------------------------------------------------------------
(* C3 *)

PadBefore(Where, n) ==
  CASE Where = "Right" -> n [] Where = "Left" -> 0 [] Where = "Center" -> n \div 2

PadAfter(Where, n) ==
  CASE Where = "Right" -> 0 [] Where = "Left" -> n
    [] Where = "Center" -> (n + 1) \div 2

\* C3: a rendered field of requested width W above its content width w is
\* exactly W long, the content sits after PadBefore padding characters and
\* before PadAfter ones: all W-w before for Right, all after for Left,
\* floor((W-w)/2) before and ceil((W-w)/2) after for Center.
C3_PaddingPlacedBySide ==
  Rendered =>
    \A i \in 1..Len(Replacements) :
      LET R == Replacements[i]
          out == lastWrites[1][i]
      IN (InRange(R) /\ R.Align > Len(Wrappers[R.Index + 1])) =>
           LET c == Wrappers[R.Index + 1]
               n == R.Align - Len(c)
               b == PadBefore(R.Where, n)
               a == PadAfter(R.Where, n)
           IN /\ Len(out) = R.Align
              /\ b + Len(c) + a = R.Align
              /\ SubSeq(out, b + 1, b + Len(c)) = c
              /\ \A k \in (1..b) \cup ((b + Len(c) + 1)..Len(out)) :
                   out[k] \notin Chars(c)

C3_Witness ==
  /\ Rendered
  /\ \E i \in 1..Len(Replacements) :
       /\ InRange(Replacements[i])
       /\ Replacements[i].Where = "Center"
       /\ Replacements[i].Align = 5
       /\ Len(Wrappers[Replacements[i].Index + 1]) = 2
       /\ lastWrites[1][i] = <<" ", "b", "b", " ", " ">>

----------------------------------------------------------------------------
(* C4 *)

\* C4: a rendered field whose requested width is at most its content width
\* (0 included, whatever side and pad character were parsed) is exactly the
\* content.
C4_NarrowFieldIsContent ==
  Rendered =>
    \A i \in 1..Len(Replacements) :
      LET R == Replacements[i] IN
      (InRange(R) /\ R.Align <= Len(Wrappers[R.Index + 1])) =>
        lastWrites[1][i] = Wrappers[R.Index + 1]

C4_Witness ==
  /\ Rendered
  /\ Fmt = <<"{", "1", ",", "*", "-", "1", "}">>
  /\ Replacements[1].Align = 1
  /\ Replacements[1].Pad = "*"
  /\ Replacements[1].Where = "Left"
  /\ Len(Wrappers) = 2
  /\ sstrResult = << <<"b", "b">> >>

----------------------------------------------------------------------------
(* C5 *)

----------------------------------------------------------------------------
(* C6 *)

\* C6: a format string with no replacement field (no "{" other than in
\* "{{") renders as itself with "{{" -> "{" and "}}" -> "}", and none of its
\* tokens is a field.
C6_EscapesOnly ==
  (Rendered /\ FirstLoneOpen(Fmt, 1) = 0) =>
    /\ Flatten(lastWrites[1]) = Unescaped(Fmt)
    /\ \A r \in Results : r = Unescaped(Fmt)
    /\ \A i \in 1..Len(Replacements) : Replacements[i].Type = "Literal"

C6_Witness ==
  /\ Fmt = <<"{", "{", "a", "}", "}">>
  /\ strResult = << <<"{", "a", "}">> >>

----------------------------------------------------------------------------
(* C7 *)

----------------------------------------------------------------------------
(* C8 *)

BadIndexFields == { <<"{", "}">>, <<"{", "x", "}">> }

----------------------------------------------------------------------------
(* C9 *)

\* The layout segment of a format string that ends in one field
\* "{" index "," layout "}", and the token parsed for that field.
LayoutOf(F) == SubSeq(F, FirstOf(F, {","}) + 1, Len(F) - 1)

LastItem == Replacements[Len(Replacements)]

StartsWithDigit(s) == s # <<>> /\ s[1] \in DigitChars

----------------------------------------------------------------------------
(* C10 *)

\* Position of a "{" that opens a field with no "}" anywhere after it, when
\* no field precedes it; 0 when the format string has none.
UnterminatedAt(F) ==
  LET k == FirstLoneOpen(F, 1) IN
  IF k # 0 /\ \A j \in k..Len(F) : F[j] # "}" THEN k ELSE 0

====
